---------------------------- MODULE Spec2Model ----------------------------
(***************************************************************************)
(* A model of password-guesser: the tiered candidate generator             *)
(* (src/src/generator.rs over src/src/mutations.rs and src/src/common.rs), *)
(* the parallel match engine (src/src/cracker/hash.rs) and the two         *)
(* commands that drive them (src/src/main.rs).                             *)
(*                                                                         *)
(* A Rust String is a sequence of one-character strings, so that the case  *)
(* forms, the reversal and the leet substitutions are computed character   *)
(* by character as the code computes them.  The alphabet is ASCII: a       *)
(* string's len() (bytes) is its number of characters.                     *)
(***************************************************************************)
EXTENDS Naturals, Sequences, FiniteSets, TLC

VARIABLES
    pc,            \* position of the main thread
    command,       \* the subcommand: "generate", "crack-hash", or "none"
    profile_file,  \* the seeds in the file --profile names
    profile,       \* the loaded profile's seeds: [words, numbers]
    config,        \* GeneratorConfig: [depth, min_length, max_length]
    seen,          \* generate_candidates: the HashSet of accepted strings
    candidates,    \* generate_candidates: the Vec of accepted strings
    runs,          \* the sequences returned by the generation runs so far
    algo_str,      \* crack-hash: the --algo argument
    hash_arg,      \* crack-hash: the --hash argument (a sequence of 0 or 1)
    hash_file,     \* crack-hash: the lines of --hash-file (0 or 1 files)
    algo,          \* the HashAlgorithm
    hashes,        \* crack_hashes: the target list
    target_hashes, \* crack_fast_hash: the lowercased targets
    found_count,   \* AtomicUsize
    all_found,     \* AtomicBool, the stop flag
    results,       \* Mutex<Vec<CrackResult>>: the guarded vector
    lock,          \* the mutex: 0 when free, else the task holding it
    task,          \* one closure call per candidate: [pc, ti, hash_hex, count]
    input_word,    \* mutate_word: the argument
    variants,      \* mutate_word: the Vec returned
    ret            \* what the command or crack_hashes returned

genVars == <<profile, config, seen, candidates, runs>>
cmdVars == <<command, profile_file, algo_str, hash_arg, hash_file>>
mutVars == <<input_word, variants>>
crackVars == <<algo, hashes, target_hashes, found_count, all_found, results,
               lock, task>>
vars == <<pc, genVars, cmdVars, mutVars, crackVars, ret>>

---------------------------------------------------------------------------
(* Bounds of the model.                                                    *)

\* seed words in a profile
MaxWords == 2
\* seed numbers in a profile
MaxNumbers == 1
\* entries kept of each static corpus list and of each loop of
\* numeric_suffixes
CorpusCut == 2
\* generation runs over the same profile and configuration
Runs == 2
\* candidates handed to crack_hashes
MaxCandidates == 2
\* target hashes handed to crack_hashes
MaxTargets == 2
\* worker threads of the rayon pool
NumThreads == 2

\* the longest target list of the runs checked for termination
MaxFairTargets == 1

\* the longest word mutate_word is called with
MaxWordLen == 4

---------------------------------------------------------------------------
(* Strings.                                                                *)

Chars(str) == [i \in 1..Len(str) |-> SubSeq(str, i, i)]

Range(s) == {s[i] : i \in DOMAIN s}

Min(a, b) == IF a <= b THEN a ELSE b

RECURSIVE Flatten(_)
Flatten(ss) == IF ss = <<>> THEN <<>> ELSE Head(ss) \o Flatten(Tail(ss))

\* every sequence over S of length at most n
SeqsUpTo(S, n) == UNION {[1..k -> S] : k \in 0..n}

Cut(list) == SubSeq(list, 1, Min(Len(list), CorpusCut))

LowerAlpha == Chars("abcdefghijklmnopqrstuvwxyz")
UpperAlpha == Chars("ABCDEFGHIJKLMNOPQRSTUVWXYZ")

\* the lowercase of each capital and the capital of each lowercase letter
ToLower == [c \in Range(UpperAlpha) |->
               LowerAlpha[CHOOSE i \in 1..26 : UpperAlpha[i] = c]]
ToUpper == [c \in Range(LowerAlpha) |->
               UpperAlpha[CHOOSE i \in 1..26 : LowerAlpha[i] = c]]

\* char::to_lowercase, char::to_uppercase
LowerChar(c) == IF c \in DOMAIN ToLower THEN ToLower[c] ELSE c

UpperChar(c) == IF c \in DOMAIN ToUpper THEN ToUpper[c] ELSE c

\* str::to_lowercase, str::to_uppercase
to_lowercase(s) == [i \in 1..Len(s) |-> LowerChar(s[i])]
to_uppercase(s) == [i \in 1..Len(s) |-> UpperChar(s[i])]

\* chars().rev().collect()
Reversed(s) == [i \in 1..Len(s) |-> s[Len(s) + 1 - i]]

IsSpace(c) == c \in {" ", "\t"}

RECURSIVE trim_start(_)
trim_start(s) ==
    IF s # <<>> /\ IsSpace(Head(s)) THEN trim_start(Tail(s)) ELSE s

\* str::trim
trim(s) == Reversed(trim_start(Reversed(trim_start(s))))

DigitChars == Chars("0123456789")

\* format!("{}", n) of an unsigned integer
RECURSIVE FormatInt(_)
FormatInt(n) ==
    IF n < 10 THEN <<DigitChars[n + 1]>>
    ELSE Append(FormatInt(n \div 10), DigitChars[(n % 10) + 1])

\* format!("{:02}", n)
FormatInt02(n) == IF n < 10 THEN <<"0">> \o FormatInt(n) ELSE FormatInt(n)

---------------------------------------------------------------------------
(* src/src/mutations.rs                                                    *)

capitalize_first(s) ==
    IF s = <<>> THEN <<>> ELSE <<UpperChar(Head(s))>> \o Tail(s)

alternating_case(s) ==
    [i \in 1..Len(s) |->
        IF (i - 1) % 2 = 0 THEN LowerChar(s[i]) ELSE UpperChar(s[i])]

FullLeetChar(c) ==
    CASE c = "a" -> "@"
      [] c = "e" -> "3"
      [] c = "i" -> "1"
      [] c = "o" -> "0"
      [] c = "s" -> "$"
      [] c = "t" -> "7"
      [] c = "l" -> "1"
      [] OTHER -> c

full_leet(s) == [i \in 1..Len(s) |-> FullLeetChar(s[i])]

leet_map ==
    << <<"a", <<"@", "4">> >>,
       <<"e", <<"3">> >>,
       <<"i", <<"1", "!">> >>,
       <<"o", <<"0">> >>,
       <<"s", <<"$", "5">> >>,
       <<"t", <<"7", "+">> >>,
       <<"l", <<"1">> >> >>

\* the variants that replace position i of s: one per substitute of s[i]
LeetVariantsAt(s, i) ==
    Flatten([m \in 1..Len(leet_map) |->
        IF s[i] = leet_map[m][1]
        THEN [k \in 1..Len(leet_map[m][2]) |->
                 [s EXCEPT ![i] = leet_map[m][2][k]]]
        ELSE <<>>])

\* variants with the first substitute of a character alone
single_leet_first(s) ==
    Flatten([i \in 1..Len(s) |-> SubSeq(LeetVariantsAt(s, i), 1, 1)])

single_leet_variants(s) ==
    Flatten([i \in 1..Len(s) |-> LeetVariantsAt(s, i)])

mutate_word(word) ==
    LET lower == to_lowercase(word)
        reversed == Reversed(lower)
    IN  << lower,
           capitalize_first(lower),
           to_uppercase(lower),
           alternating_case(lower),
           reversed,
           capitalize_first(reversed),
           full_leet(lower),
           capitalize_first(full_leet(lower)) >>
        \o single_leet_variants(lower)

mutate_combined(word) ==
    LET lower == to_lowercase(word)
    IN  << lower, capitalize_first(lower), to_uppercase(lower),
           full_leet(lower) >>

combine_words(a, b) ==
    LET a_lower == to_lowercase(a)
        b_lower == to_lowercase(b)
        a_cap == capitalize_first(a_lower)
        b_cap == capitalize_first(b_lower)
    IN  << a_lower \o b_lower,
           a_cap \o b_cap,
           a_cap \o b_lower,
           a_lower \o <<"_">> \o b_lower,
           a_cap \o <<"_">> \o b_cap,
           a_lower \o <<".">> \o b_lower,
           b_lower \o a_lower,
           b_cap \o a_cap >>

combine_word_number(word, number) ==
    LET lower == to_lowercase(word)
        cap == capitalize_first(lower)
    IN  << lower \o number, cap \o number, number \o lower, number \o cap >>

apply_suffix(word, suffix) ==
    LET lower == to_lowercase(word)
        cap == capitalize_first(lower)
    IN  << lower \o suffix, cap \o suffix >>

apply_prefix(prefix, word) ==
    LET lower == to_lowercase(word)
        cap == capitalize_first(lower)
    IN  << prefix \o lower, prefix \o cap >>

double_word(word) ==
    LET lower == to_lowercase(word)
        cap == capitalize_first(lower)
    IN  << lower \o lower, lower \o <<"_">> \o lower, cap \o cap >>

---------------------------------------------------------------------------
(* src/src/common.rs.  The lists are the source's, each cut to its first   *)
(* CorpusCut entries; numeric_suffixes keeps the first CorpusCut values of *)
(* each of its five loops.                                                 *)

\* data/common_passwords.txt is embedded at compile time and is not part
\* of the sources: these lines stand for it (a padded line, a blank line
\* and a repeated line among them).
COMMON_PASSWORDS ==
    << Chars("123456"), Chars(" abc "), Chars(""), Chars("123456"),
       Chars("qwerty") >>

common_passwords ==
    SelectSeq([i \in 1..Len(COMMON_PASSWORDS) |-> trim(COMMON_PASSWORDS[i])],
              LAMBDA l : l # <<>>)

keyboard_patterns ==
    Cut(<< Chars("qwerty"), Chars("qwertyuiop"), Chars("qwert"),
           Chars("asdfgh"), Chars("asdfghjkl"), Chars("zxcvbn"),
           Chars("zxcvbnm") >>)

YearFirst == 1950
YearLast == 2026
ShortYearLast == 26

\* the values first..last of a loop, as a sequence
Loop(first, last) == [i \in 1..(last + 1 - first) |-> first + i - 1]

numeric_suffixes ==
    LET fmt(ns) == [i \in 1..Len(ns) |-> FormatInt(ns[i])]
        fmt02(ns) == [i \in 1..Len(ns) |-> FormatInt02(ns[i])]
    IN  fmt(Cut(Loop(0, 9)))
        \o fmt(Cut(<<10, 11, 12, 13, 21, 22, 23, 69, 77, 88, 99>>))
        \o fmt(Cut(<<100, 111, 123, 321, 234, 420, 666, 777, 7, 911>>))
        \o fmt(Cut(Loop(YearFirst, YearLast)))
        \o fmt02(Cut(Loop(0, ShortYearLast)))

symbol_suffixes ==
    Cut(<< Chars("!"), Chars("!!"), Chars("!!!"), Chars("@"), Chars("#"),
           Chars("$"), Chars("!@#"), Chars("!1"), Chars("@1"), Chars("#1"),
           Chars("!!"), Chars("?"), Chars("*"), Chars("."), Chars("!"),
           Chars("!@"), Chars("@#"), Chars("#$") >>)

common_prefixes ==
    Cut(<< Chars("my"), Chars("the"), Chars("i"), Chars("its"), Chars("mr"),
           Chars("ms"), Chars("im"), Chars("iam"), Chars("ilove"),
           Chars("ilike"), Chars("my1"), Chars("the1"), Chars("super"),
           Chars("mega"), Chars("big"), Chars("lil") >>)

---------------------------------------------------------------------------
(* src/src/generator.rs                                                    *)

\* a bug: the seen-set is not consulted
AcceptsNoSeen(item, sn, cfg) ==
    /\ Len(item) >= cfg.min_length
    /\ Len(item) <= cfg.max_length

\* a bug: the upper bound is not tested
AcceptsNoMax(item, sn, cfg) ==
    /\ Len(item) >= cfg.min_length
    /\ item \notin sn

\* add_unique's test of one item; `&&` evaluates seen.insert only for an
\* item whose length is within the bounds
Accepts(item, sn, cfg) ==
    /\ Len(item) >= cfg.min_length
    /\ Len(item) <= cfg.max_length
    /\ item \notin sn

\* a bug: an accepted item is put in front of the candidates
AddOneInFront(st, item, cfg) ==
    IF Accepts(item, st.seen, cfg)
    THEN [candidates |-> <<item>> \o st.candidates,
          seen |-> st.seen \cup {item}]
    ELSE st

\* the body of add_unique's loop for one item, over st = [candidates, seen]
AddOne(st, item, cfg) ==
    IF Accepts(item, st.seen, cfg)
    THEN [candidates |-> Append(st.candidates, item),
          seen |-> st.seen \cup {item}]
    ELSE st

\* the one element of a singleton
Only(S) == CHOOSE x \in S : TRUE

\* add_unique's loop over items[lo..hi], in order: the first half of the
\* range, then the second half from the state the first half left (bound
\* as a value before the second half starts)
RECURSIVE AddUniqueRange(_, _, _, _, _)
AddUniqueRange(st, items, lo, hi, cfg) ==
    IF lo > hi THEN st
    ELSE IF lo = hi THEN AddOne(st, items[lo], cfg)
    ELSE LET mid == (lo + hi) \div 2
         IN  Only({AddUniqueRange(half, items, mid + 1, hi, cfg) :
                     half \in {AddUniqueRange(st, items, lo, mid, cfg)}})

\* a bug: the items are taken last to first
add_unique_reversed(st, items, cfg) ==
    AddUniqueRange(st, Reversed(items), 1, Len(items), cfg)

add_unique(st, items, cfg) == AddUniqueRange(st, items, 1, Len(items), cfg)

\* the raw output of each tier, before add_unique
Tier1Items == common_passwords

Tier2Items(p) ==
    Flatten([i \in 1..Len(p.words) |->
        mutate_word(p.words[i]) \o double_word(p.words[i])])

Tier3Items(p) ==
    Flatten([i \in 1..Len(p.words) |->
        LET word == p.words[i]
        IN  Flatten([k \in 1..Len(numeric_suffixes) |->
                apply_suffix(word, numeric_suffixes[k])])
            \o Flatten([k \in 1..Len(symbol_suffixes) |->
                apply_suffix(word, symbol_suffixes[k])])
            \o Flatten([k \in 1..Len(common_prefixes) |->
                apply_prefix(common_prefixes[k], word)])
            \o Flatten([k \in 1..Len(p.numbers) |->
                combine_word_number(word, p.numbers[k])])])
    \o p.numbers

Tier4Items(p) ==
    Flatten([i \in 1..Len(p.words) |->
        Flatten([j \in 1..(Len(p.words) - i) |->
            combine_words(p.words[i], p.words[i + j])])
        \o Flatten([k \in 1..Len(p.numbers) |->
            combine_word_number(p.words[i], p.numbers[k])])])

Tier5Items == keyboard_patterns

Tier6Suffixes ==
    << Chars("123"), Chars("!"), Chars("1"), Chars("12"), Chars("1!") >>

Tier6Items(p) ==
    Flatten([i \in 1..Len(p.words) |->
        Flatten([j \in 1..(Len(p.words) - i) |->
            LET combos == combine_words(p.words[i], p.words[i + j])
            IN  Flatten([c \in 1..Len(combos) |->
                    mutate_combined(combos[c])
                    \o [k \in 1..Len(Tier6Suffixes) |->
                           combos[c] \o Tier6Suffixes[k]]])])])
    \o Flatten([i \in 1..Len(p.words) |->
        LET mutated == mutate_word(p.words[i])
        IN  Flatten([m \in 1..Len(mutated) |->
                Flatten([k \in 1..Len(numeric_suffixes) |->
                    apply_suffix(mutated[m], numeric_suffixes[k])])])])

TierItems(k, p) ==
    CASE k = 1 -> Tier1Items
      [] k = 2 -> Tier2Items(p)
      [] k = 3 -> Tier3Items(p)
      [] k = 4 -> Tier4Items(p)
      [] k = 5 -> Tier5Items
      [] k = 6 -> Tier6Items(p)

\* a bug: no tier is gated
TierRunsAlways(k, cfg) == TRUE

\* a bug: `==` for `>=` in the gate of tiers 3 to 5
TierRunsExact(k, cfg) ==
    CASE k \in {1, 2} -> TRUE
      [] k \in {3, 4, 5} -> cfg.depth = 2
      [] k = 6 -> cfg.depth >= 3

\* the `if config.depth >= ..` around tiers 3 to 6; tiers 1 and 2 have none
TierRuns(k, cfg) ==
    CASE k \in {1, 2} -> TRUE
      [] k \in {3, 4, 5} -> cfg.depth >= 2
      [] k = 6 -> cfg.depth >= 3

\* one tier of generate_candidates over st = [candidates, seen]
TierStep(k, st, p, cfg) ==
    IF TierRuns(k, cfg) THEN add_unique(st, TierItems(k, p), cfg) ELSE st

\* a bug: the seen-set outlives the call (a static)
StaleSeen == seen

\* `let mut seen = HashSet::new()`: a set owned by the call
NewSeen == {}

RECURSIVE TiersFrom(_, _, _, _)
TiersFrom(k, st, p, cfg) ==
    IF k > 6 THEN st ELSE TiersFrom(k + 1, TierStep(k, st, p, cfg), p, cfg)

\* generate_candidates as a function of its arguments
generate_candidates(p, cfg) ==
    TiersFrom(1, [candidates |-> <<>>, seen |-> {}], p, cfg).candidates

---------------------------------------------------------------------------
(* Values shared by the commands.                                          *)

NoRet == [kind |-> "none", val |-> <<>>]
Ok(v) == [kind |-> "ok", val |-> v]
Err(msg) == [kind |-> "err", val |-> msg]

\* the match engine before crack_hashes is entered
CrackIdle ==
    /\ algo = "none"
    /\ hashes = <<>>
    /\ target_hashes = <<>>
    /\ found_count = 0
    /\ all_found = FALSE
    /\ results = <<>>
    /\ lock = 0
    /\ task = <<>>

\* no profile is loaded
Unloaded == "unloaded"

\* mutate_word is not under test
MutIdle ==
    /\ input_word = <<>>
    /\ variants = <<>>

CmdIdle ==
    /\ algo_str = <<>>
    /\ hash_arg = <<>>
    /\ hash_file = <<>>

\* seed words as Profile::seed_words returns them: trimmed, lowercase,
\* not empty; the same word may occur twice (a nickname equal to a name)
Words == {Chars("te"), Chars("a")}

\* seed numbers as Profile::seed_numbers returns them
Numbers == {Chars("1")}

Profiles ==
    [words : SeqsUpTo(Words, MaxWords), numbers : SeqsUpTo(Numbers, MaxNumbers)]

\* --depth as typed (clap parses a u8 and then checks its range)
DepthArgs == 0..4

\* --min-length and --max-length as typed (any usize parses)
LengthArgs == {0, 1, 3, 6}

Configs ==
    [depth : DepthArgs, min_length : LengthArgs, max_length : LengthArgs]

---------------------------------------------------------------------------
(* The generate command: main and cmd_generate over generate_candidates.   *)

Init ==
    /\ pc = "clap"
    /\ command = "generate"
    /\ profile_file \in Profiles
    /\ profile = Unloaded
    /\ config \in Configs
    /\ seen = {}
    /\ candidates = <<>>
    /\ runs = <<>>
    /\ MutIdle
    /\ CmdIdle
    /\ CrackIdle
    /\ ret = NoRet

\* the value_parser of --depth: clap::value_parser!(u8).range(1..=3)
DepthInRange(d) == d >= 1 /\ d <= 3

\* Cli::parse: an argument that does not parse ends the process
ClapParse ==
    /\ pc = "clap"
    /\ IF DepthInRange(config.depth)
       THEN pc' = "cmd_generate" /\ ret' = ret
       ELSE pc' = "error" /\ ret' = Err("clap: invalid value for --depth")
    /\ UNCHANGED <<genVars, cmdVars, mutVars, crackVars>>

\* cmd_generate up to the call of generate_candidates: Profile::load
\* succeeds or fails (`?`), the arguments become the GeneratorConfig as is
CmdGenerate ==
    /\ pc = "cmd_generate"
    /\ \/ pc' = "generate" /\ profile' = profile_file /\ ret' = ret
       \/ pc' = "error" /\ profile' = profile
          /\ ret' = Err("Failed to read profile")
    /\ UNCHANGED <<config, seen, candidates, runs, cmdVars, mutVars, crackVars>>

\* generate_candidates, lines 28 to 40: the call's own seen and candidates
GenerateEntry ==
    /\ pc = "generate"
    /\ seen' = NewSeen
    /\ candidates' = <<>>
    /\ pc' = "tier1"
    /\ UNCHANGED <<profile, config, runs, cmdVars, mutVars, crackVars, ret>>

PcOfTier == <<"tier1", "tier2", "tier3", "tier4", "tier5", "tier6", "return">>

Tier(k) ==
    /\ pc = PcOfTier[k]
    /\ LET st == TierStep(k, [candidates |-> candidates, seen |-> seen],
                          profile, config)
       IN  /\ candidates' = st.candidates
           /\ seen' = st.seen
    /\ pc' = PcOfTier[k + 1]
    /\ UNCHANGED <<profile, config, runs, cmdVars, mutVars, crackVars, ret>>

Tier1 == Tier(1)
Tier2 == Tier(2)
Tier3 == Tier(3)
Tier4 == Tier(4)
Tier5 == Tier(5)
Tier6 == Tier(6)

\* `candidates` is returned to the command that called
GenerateReturn ==
    /\ pc = "return"
    /\ runs' = Append(runs, candidates)
    /\ pc' = IF command = "generate" THEN "write" ELSE "crack_hashes"
    /\ UNCHANGED <<profile, config, seen, candidates, cmdVars, mutVars, crackVars, ret>>

\* wordlist::write_wordlist succeeds or fails (`?`)
WriteWordlist ==
    /\ pc = "write"
    /\ pc' = "done"
    /\ \/ ret' = Ok(runs[Len(runs)])
       \/ ret' = Err("Failed to create wordlist")
    /\ UNCHANGED <<genVars, cmdVars, mutVars, crackVars>>

\* the command is run again on the same profile with the same arguments
Rerun ==
    /\ pc = "done"
    /\ Len(runs) < Runs
    /\ pc' = "generate"
    /\ ret' = NoRet
    /\ UNCHANGED <<genVars, cmdVars, mutVars, crackVars>>

Next ==
    \/ ClapParse
    \/ CmdGenerate
    \/ GenerateEntry
    \/ Tier1
    \/ Tier2
    \/ Tier3
    \/ Tier4
    \/ Tier5
    \/ Tier6
    \/ GenerateReturn
    \/ WriteWordlist
    \/ Rerun

Spec == Init /\ [][Next]_vars

---------------------------------------------------------------------------
(* src/src/cracker/mod.rs and src/src/cracker/hash.rs                      *)

FastAlgorithms == {"Md5", "Sha1", "Sha256", "Sha512"}
HashAlgorithms == FastAlgorithms \cup {"Bcrypt"}

\* from_str with the help text's "ntlm" accepted
from_str_ntlm(s) ==
    LET l == to_lowercase(s)
    IN  CASE l = Chars("md5") -> <<"Md5">>
          [] l = Chars("sha1") -> <<"Sha1">>
          [] l = Chars("sha256") -> <<"Sha256">>
          [] l = Chars("sha512") -> <<"Sha512">>
          [] l = Chars("bcrypt") -> <<"Bcrypt">>
          [] l = Chars("ntlm") -> <<"Md5">>
          [] OTHER -> <<>>

\* HashAlgorithm::from_str: Some(algorithm), or None
from_str(s) ==
    LET l == to_lowercase(s)
    IN  CASE l = Chars("md5") -> <<"Md5">>
          [] l = Chars("sha1") -> <<"Sha1">>
          [] l = Chars("sha256") -> <<"Sha256">>
          [] l = Chars("sha512") -> <<"Sha512">>
          [] l = Chars("bcrypt") -> <<"Bcrypt">>
          [] OTHER -> <<>>

\* The digest functions are stood for by one-byte checksums of the input's
\* bytes: each is a function of the input alone, and distinct inputs may
\* collide (under the Md5 stand-in, the anagrams of a string do).
ByteTable ==
    Chars(" !#$*+.0123456789?@ABCDEFGHIJKLMNOPQRSTUVWXYZ_abcdefghijklmnopqrstuvwxyz")

\* the byte of each character of the table
ByteIndex == [c \in Range(ByteTable) |->
                 CHOOSE i \in 1..Len(ByteTable) : ByteTable[i] = c]

ByteOf(c) == ByteIndex[c]

RECURSIVE Checksum(_, _, _)
Checksum(acc, mult, s) ==
    IF s = <<>> THEN acc
    ELSE Checksum((acc * mult + ByteOf(Head(s))) % 256, mult, Tail(s))

\* hasher.update(input.as_bytes()); hasher.finalize()
Digest(a, input) ==
    CASE a = "Md5" -> Checksum(0, 1, input)
      [] a = "Sha1" -> Checksum(1, 3, input)
      [] a = "Sha256" -> Checksum(2, 5, input)
      [] a = "Sha512" -> Checksum(3, 7, input)

HexDigits == Chars("0123456789abcdef")

\* hex::encode: lowercase hexadecimal
HexEncode(byte) == <<HexDigits[(byte \div 16) + 1], HexDigits[(byte % 16) + 1]>>

compute_hash(a, input) == HexEncode(Digest(a, input))

\* A bcrypt hash string stands as "$", a salt character and the salted
\* checksum of the password; bcrypt::verify recomputes it with the target's
\* salt, and fails (Err) on a target that is not of this form.
Salts == {"x", "y"}

BcryptHash(salt, password) ==
    <<"$", salt>> \o HexEncode(Checksum(ByteOf(salt), 3, password))

\* bcrypt::verify(candidate, target) is Ok(true)
BcryptVerifies(candidate, target) ==
    /\ Len(target) = 4
    /\ target[1] = "$"
    /\ target[2] \in Salts
    /\ target = BcryptHash(target[2], candidate)

\* crack_hashes without the test for an empty target list
NoHashesNever(hs) == FALSE

\* crack_hashes: `if hashes.is_empty()`
NoHashes(hs) == hs = <<>>

\* the targets a closure call compares against: crack_fast_hash iterates
\* target_hashes, crack_bcrypt iterates hashes
ScanTargets == IF algo = "Bcrypt" THEN hashes ELSE target_hashes

TodoTask == [pc |-> "todo", ti |-> 0, hash_hex |-> <<>>, count |-> 0]

Running(i) == task[i].pc \notin {"todo", "skipped", "done"}

\* a load that may return a value never stored
LoadArbitrary == BOOLEAN

\* all_found.load(Ordering::Relaxed): no happens-before edge orders the
\* load after another thread's store, so it may still return the initial
\* value
LoadRelaxed == {all_found, FALSE}

\* a comparison that holds for every candidate and target
MatchesAny(i, target) == TRUE

\* `hash_hex == *target` for the fast algorithms, `let Ok(true) =
\* bcrypt::verify(candidate, target)` for bcrypt
Matches(i, target) ==
    IF algo = "Bcrypt"
    THEN BcryptVerifies(candidates[i], target)
    ELSE task[i].hash_hex = target

\* a stop flag that starts set
AllFoundSet == TRUE

\* AtomicBool::new(false)
NewAllFound == FALSE

\* a stop test that is one match early
ReachedEarly(count) == count + 1 >= Len(hashes)

\* `count >= total_hashes`
ReachedTotal(count) == count >= Len(hashes)

\* crack_hashes, lines 13 to 34
CrackHashes ==
    /\ pc = "crack_hashes"
    /\ IF NoHashes(hashes)
       THEN pc' = "crack_returned" /\ ret' = Err("No hashes provided")
       ELSE /\ pc' = IF algo = "Bcrypt" THEN "crack_bcrypt"
                     ELSE "crack_fast_hash"
            /\ ret' = ret
    /\ UNCHANGED <<genVars, cmdVars, mutVars, crackVars>>

\* crack_fast_hash up to par_iter, lines 37 to 57
CrackFastHash ==
    /\ pc = "crack_fast_hash"
    /\ target_hashes' = [t \in 1..Len(hashes) |-> to_lowercase(hashes[t])]
    /\ found_count' = 0
    /\ all_found' = NewAllFound
    /\ results' = <<>>
    /\ lock' = 0
    /\ task' = [i \in 1..Len(candidates) |-> TodoTask]
    /\ pc' = "par_iter"
    /\ UNCHANGED <<genVars, cmdVars, mutVars, algo, hashes, ret>>

\* crack_bcrypt up to par_iter, lines 100 to 115
CrackBcrypt ==
    /\ pc = "crack_bcrypt"
    /\ found_count' = 0
    /\ all_found' = NewAllFound
    /\ results' = <<>>
    /\ lock' = 0
    /\ task' = [i \in 1..Len(candidates) |-> TodoTask]
    /\ pc' = "par_iter"
    /\ UNCHANGED <<genVars, cmdVars, mutVars, algo, hashes, target_hashes, ret>>

\* a worker thread takes candidate i: the closure's stop-flag test and,
\* for a fast algorithm, compute_hash
Load(i) ==
    /\ pc = "par_iter"
    /\ task[i].pc = "todo"
    /\ Cardinality({j \in DOMAIN task : Running(j)}) < NumThreads
    /\ \E flag \in LoadRelaxed :
        task' = [task EXCEPT ![i] =
            IF flag THEN [@ EXCEPT !.pc = "skipped"]
            ELSE [@ EXCEPT !.pc = "loop", !.ti = 1,
                     !.hash_hex = IF algo = "Bcrypt" THEN <<>>
                                  ELSE compute_hash(algo, candidates[i])]]
    /\ UNCHANGED <<pc, genVars, cmdVars, mutVars, algo, hashes, target_hashes,
                   found_count, all_found, results, lock, ret>>

\* a loop that ends as soon as the stop flag is set
MatchesFromUnlessStopped(i, ti) ==
    IF all_found THEN {}
    ELSE {t \in ti..Len(ScanTargets) : Matches(i, ScanTargets[t])}

\* the targets from ti on that the closure call for candidate i matches
MatchesFrom(i, ti) ==
    {t \in ti..Len(ScanTargets) : Matches(i, ScanTargets[t])}

\* the smallest element of a set of numbers
Least(S) == CHOOSE t \in S : \A u \in S : t <= u

\* `for target in ..` from target ti: the comparisons up to the next match;
\* when none is left the loop and, after the progress update, the call end
Compare(i) ==
    /\ task[i].pc = "loop"
    /\ LET left == MatchesFrom(i, task[i].ti)
       IN  task' = [task EXCEPT ![i] =
               IF left = {} THEN [@ EXCEPT !.pc = "done"]
               ELSE [@ EXCEPT !.pc = "lock", !.ti = Least(left)]]
    /\ UNCHANGED <<pc, genVars, cmdVars, mutVars, algo, hashes, target_hashes,
                   found_count, all_found, results, lock, ret>>

\* a bug: the result is pushed without the mutex being taken
LockNotTaken(i) ==
    /\ task[i].pc = "lock"
    /\ task' = [task EXCEPT ![i].pc = "push"]
    /\ UNCHANGED <<pc, genVars, cmdVars, mutVars, algo, hashes,
                   target_hashes, found_count, all_found, results, lock, ret>>

\* results.lock().unwrap()
Lock(i) ==
    /\ task[i].pc = "lock"
    /\ lock = 0
    /\ lock' = i
    /\ task' = [task EXCEPT ![i].pc = "push"]
    /\ UNCHANGED <<pc, genVars, cmdVars, mutVars, algo, hashes, target_hashes,
                   found_count, all_found, results, ret>>

\* a push that records the first target, not the one compared
PushFirstTarget(i) ==
    /\ task[i].pc = "push"
    /\ results' = Append(results,
          [hash |-> ScanTargets[1], plaintext |-> candidates[i],
           algorithm |-> algo])
    /\ task' = [task EXCEPT ![i].pc = "fetch_add"]
    /\ UNCHANGED <<pc, genVars, cmdVars, mutVars, algo, hashes,
                   target_hashes, found_count, all_found, lock, ret>>

\* res.push(CrackResult {..})
Push(i) ==
    /\ task[i].pc = "push"
    /\ results' = Append(results,
          [hash |-> ScanTargets[task[i].ti], plaintext |-> candidates[i],
           algorithm |-> algo])
    /\ task' = [task EXCEPT ![i].pc = "fetch_add"]
    /\ UNCHANGED <<pc, genVars, cmdVars, mutVars, algo, hashes, target_hashes,
                   found_count, all_found, lock, ret>>

\* let count = found_count.fetch_add(1, Ordering::Relaxed) + 1
FetchAdd(i) ==
    /\ task[i].pc = "fetch_add"
    /\ found_count' = found_count + 1
    /\ task' = [task EXCEPT ![i].pc = "store", ![i].count = found_count + 1]
    /\ UNCHANGED <<pc, genVars, cmdVars, mutVars, algo, hashes, target_hashes,
                   all_found, results, lock, ret>>

\* if count >= total_hashes { all_found.store(true, Ordering::Relaxed) }
Store(i) ==
    /\ task[i].pc = "store"
    /\ all_found' = IF ReachedTotal(task[i].count) THEN TRUE ELSE all_found
    /\ task' = [task EXCEPT ![i].pc = "unlock"]
    /\ UNCHANGED <<pc, genVars, cmdVars, mutVars, algo, hashes, target_hashes,
                   found_count, results, lock, ret>>

\* a guard that is leaked: the loop goes on with the mutex held
UnlockLeaks(i) ==
    /\ task[i].pc = "unlock"
    /\ task' = [task EXCEPT ![i].pc = "loop", ![i].ti = @ + 1]
    /\ UNCHANGED <<pc, genVars, cmdVars, mutVars, algo, hashes,
                   target_hashes, found_count, all_found, results, lock, ret>>

\* the guard `res` is dropped at the end of the `if`; the loop goes on
Unlock(i) ==
    /\ task[i].pc = "unlock"
    /\ lock' = 0
    /\ task' = [task EXCEPT ![i].pc = "loop", ![i].ti = @ + 1]
    /\ UNCHANGED <<pc, genVars, cmdVars, mutVars, algo, hashes, target_hashes,
                   found_count, all_found, results, ret>>

\* for_each returns once every candidate's call has ended:
\* results.into_inner().unwrap() and Ok(results)
CrackReturn ==
    /\ pc = "par_iter"
    /\ \A i \in DOMAIN task : task[i].pc \in {"skipped", "done"}
    /\ ret' = Ok(results)
    /\ pc' = "crack_returned"
    /\ UNCHANGED <<genVars, cmdVars, mutVars, crackVars>>

---------------------------------------------------------------------------
(* crack_hashes called with any targets, algorithm and candidates.         *)

\* candidate strings: "ab" and "ba" collide under the Md5 stand-in
Plain == {Chars("ab"), Chars("ba")}

\* the algorithms crack_hashes is called with: Sha1 and Sha512 differ
\* from Sha256 in the digest function alone
CrackAlgorithms == {"Md5", "Sha256", "Bcrypt"}

\* target strings: the digests of Plain in uppercase hex (one string under
\* the Md5 stand-in, on which Plain collides); for bcrypt, two salted
\* hashes of one string of Plain and a malformed hash
TargetStrings(a) ==
    IF a = "Bcrypt"
    THEN {BcryptHash("x", Chars("ab")), BcryptHash("y", Chars("ab")),
          Chars("bad")}
    ELSE {to_uppercase(compute_hash(a, p)) : p \in Plain}

GenIdle ==
    /\ profile = Unloaded
    /\ config = [depth |-> 2, min_length |-> 6, max_length |-> 32]
    /\ seen = {}
    /\ runs = <<>>

CrackInit ==
    /\ pc = "crack_hashes"
    /\ command = "none"
    /\ profile_file = Unloaded
    /\ GenIdle
    /\ MutIdle
    /\ CmdIdle
    /\ algo \in CrackAlgorithms
    /\ candidates \in SeqsUpTo(Plain, MaxCandidates)
    /\ hashes \in SeqsUpTo(TargetStrings(algo), MaxTargets)
    /\ target_hashes = <<>>
    /\ found_count = 0
    /\ all_found = FALSE
    /\ results = <<>>
    /\ lock = 0
    /\ task = <<>>
    /\ ret = NoRet

\* the steps of the worker threads
WorkerNext ==
    \/ \E i \in DOMAIN task : Load(i)
    \/ \E i \in DOMAIN task : Compare(i)
    \/ \E i \in DOMAIN task : Lock(i)
    \/ \E i \in DOMAIN task : Push(i)
    \/ \E i \in DOMAIN task : FetchAdd(i)
    \/ \E i \in DOMAIN task : Store(i)
    \/ \E i \in DOMAIN task : Unlock(i)

CrackNext ==
    \/ CrackHashes
    \/ CrackFastHash
    \/ CrackBcrypt
    \/ WorkerNext
    \/ CrackReturn

CrackSpec == CrackInit /\ [][CrackNext]_vars

\* the thread pool keeps running: while a step of the main thread or of a
\* worker is possible, one is eventually taken
\* The runs are those of CrackSpec with at most MaxFairTargets targets.
CrackFairInit == CrackInit /\ Len(hashes) <= MaxFairTargets

CrackFairSpec == CrackFairInit /\ [][CrackNext]_vars /\ WF_vars(CrackNext)

---------------------------------------------------------------------------
(* The crack-hash command: cmd_crack_hash over generate_candidates and     *)
(* crack_hashes, from the parsed arguments on.                             *)

\* wordlist::read_wordlist on a readable file: trimmed lines, blank ones
\* dropped
read_wordlist(lines) ==
    SelectSeq([i \in 1..Len(lines) |-> trim(lines[i])], LAMBDA l : l # <<>>)

\* --algo as typed
Selectors ==
    {Chars("md5"), Chars("MD5"), Chars("Sha1"), Chars("sha256"),
     Chars("SHA512"), Chars("bcrypt"), Chars("Bcrypt"), Chars("ntlm"),
     Chars("NTLM"), Chars("md4"), Chars("")}

\* the profile of the command's runs: its only seed is a number, so that
\* the candidates are few
CmdProfiles == {[words |-> <<>>, numbers |-> <<Chars("abc1")>>]}

\* --depth, --min-length and --max-length, as parsed
CmdConfigs ==
    {[depth |-> 1, min_length |-> 3, max_length |-> 3],
     [depth |-> 2, min_length |-> 3, max_length |-> 4]}

\* digests of the candidates "abc" and "abc1"
CmdHashStrings ==
    {compute_hash("Md5", Chars("abc")),
     to_uppercase(compute_hash("Sha1", Chars("abc1"))),
     BcryptHash("x", Chars("abc"))}

\* --hash-file: absent, or a file that cannot be read, or a file's lines
HashFiles ==
    {<<>>,
     <<[readable |-> FALSE, lines |-> <<>>]>>,
     <<[readable |-> TRUE, lines |-> <<Chars(""), Chars(" ")>>]>>}
    \cup {<<[readable |-> TRUE, lines |-> <<<<" ">> \o h, Chars("")>>]>> :
            h \in CmdHashStrings}

CmdInit ==
    /\ pc = "cmd_crack_hash"
    /\ command = "crack-hash"
    /\ profile_file \in CmdProfiles
    /\ profile = Unloaded
    /\ config \in CmdConfigs
    /\ seen = {}
    /\ candidates = <<>>
    /\ runs = <<>>
    /\ algo_str \in Selectors
    /\ hash_arg \in SeqsUpTo(CmdHashStrings, 1)
    /\ hash_file \in HashFiles
    /\ MutIdle
    /\ CrackIdle
    /\ ret = NoRet

\* cmd_crack_hash, lines 209 to 216
CmdCrackHash ==
    /\ pc = "cmd_crack_hash"
    /\ IF from_str(algo_str) = <<>>
       THEN /\ pc' = "error"
            /\ ret' = Err("Unknown algorithm")
            /\ algo' = algo
       ELSE /\ pc' = "collect_hashes"
            /\ ret' = ret
            /\ algo' = from_str(algo_str)[1]
    /\ UNCHANGED <<genVars, cmdVars, mutVars, hashes, target_hashes, found_count,
                   all_found, results, lock, task>>

\* cmd_crack_hash, lines 218 to 229
CollectHashes ==
    /\ pc = "collect_hashes"
    /\ IF hash_file # <<>> /\ ~hash_file[1].readable
       THEN /\ pc' = "error"
            /\ ret' = Err("Failed to open wordlist")
            /\ hashes' = hashes
       ELSE LET file_hashes == IF hash_file = <<>> THEN <<>>
                               ELSE read_wordlist(hash_file[1].lines)
                collected == hash_arg \o file_hashes
            IN  IF collected = <<>>
                THEN /\ pc' = "error"
                     /\ ret' = Err("Provide --hash or --hash-file")
                     /\ hashes' = hashes
                ELSE /\ pc' = "load_profile"
                     /\ ret' = ret
                     /\ hashes' = collected
    /\ UNCHANGED <<genVars, cmdVars, mutVars, algo, target_hashes, found_count,
                   all_found, results, lock, task>>

\* cmd_crack_hash, lines 231 to 252: Profile::load succeeds or fails (`?`)
LoadProfile ==
    /\ pc = "load_profile"
    /\ \/ pc' = "generate" /\ profile' = profile_file /\ ret' = ret
       \/ pc' = "error" /\ profile' = profile
          /\ ret' = Err("Failed to read profile")
    /\ UNCHANGED <<config, seen, candidates, runs, cmdVars, mutVars, crackVars>>

\* cmd_crack_hash, lines 257 to 278: `?` on crack_hashes, then the summary
Summary ==
    /\ pc = "crack_returned"
    /\ command = "crack-hash"
    /\ pc' = IF ret.kind = "err" THEN "error" ELSE "done"
    /\ UNCHANGED <<genVars, cmdVars, mutVars, crackVars, ret>>

CmdNext ==
    \/ CmdCrackHash
    \/ CollectHashes
    \/ LoadProfile
    \/ GenerateEntry
    \/ Tier1
    \/ Tier2
    \/ Tier3
    \/ Tier4
    \/ Tier5
    \/ Tier6
    \/ GenerateReturn
    \/ CrackNext
    \/ Summary

CmdSpec == CmdInit /\ [][CmdNext]_vars

---------------------------------------------------------------------------
(* mutate_word called on any word, and the unit test test_mutate_word.     *)

\* the letters of the leet table, a letter outside it and a capital
WordAlphabet == {"a", "e", "i", "o", "s", "t", "l", "x", "T"}

\* the words mutate_word is called with: "test" is one of them
WordInputs == SeqsUpTo(WordAlphabet, MaxWordLen)

MutInit ==
    /\ pc = "mutate_word"
    /\ command = "none"
    /\ profile_file = Unloaded
    /\ GenIdle
    /\ candidates = <<>>
    /\ CmdIdle
    /\ CrackIdle
    /\ input_word \in WordInputs
    /\ variants = <<>>
    /\ ret = NoRet

\* let variants = mutate_word(word)
MutateWord ==
    /\ pc = "mutate_word"
    /\ variants' = mutate_word(input_word)
    /\ pc' = "mutated"
    /\ UNCHANGED <<genVars, cmdVars, crackVars, input_word, ret>>

\* the strings test_mutate_word asserts to be among the variants
TestExpected ==
    {Chars("test"), Chars("Test"), Chars("TEST"), Chars("tset"),
     Chars("7es7")}

\* test_mutate_word after its call mutate_word("test"): the assert! lines,
\* the first failing one panics
TestMutateWord ==
    /\ pc = "mutated"
    /\ input_word = Chars("test")
    /\ ret' = IF TestExpected \subseteq Range(variants)
              THEN Ok(<<>>) ELSE Err("assertion failed")
    /\ pc' = "tested"
    /\ UNCHANGED <<genVars, cmdVars, crackVars, mutVars>>

MutNext ==
    \/ MutateWord
    \/ TestMutateWord

MutSpec == MutInit /\ [][MutNext]_vars

---------------------------------------------------------------------------
(* The generator's claims.                                                 *)

NoDuplicates(s) == Cardinality(Range(s)) = Len(s)

WithinBounds(s, cfg) ==
    \A i \in DOMAIN s :
        Len(s[i]) >= cfg.min_length /\ Len(s[i]) <= cfg.max_length

\* the tiers have all run and the sequence was returned
Generated == pc \in {"write", "done"}

LastRun == runs[Len(runs)]

\* C1: the candidate sequence holds no string twice, after every tier and
\* in every returned sequence, whichever tiers produced the string.
C1_NoDuplicates ==
    /\ NoDuplicates(candidates)
    /\ \A r \in DOMAIN runs : NoDuplicates(runs[r])

\* a run returned a string that two different tiers produced
C1_Witness ==
    /\ Generated
    /\ \E k1 \in 1..6, k2 \in 1..6 :
        /\ k1 < k2
        /\ TierRuns(k1, config) /\ TierRuns(k2, config)
        /\ Range(TierItems(k1, profile)) \cap Range(TierItems(k2, profile))
             \cap Range(LastRun) # {}

\* C2: every string of the candidate sequence, after every tier and in
\* every returned sequence, is min_length to max_length long.
C2_LengthBound ==
    /\ WithinBounds(candidates, config)
    /\ \A r \in DOMAIN runs : WithinBounds(runs[r], config)

\* a run kept some strings and dropped a too short and a too long one
C2_Witness ==
    /\ Generated
    /\ LastRun # <<>>
    /\ \E x \in Range(Tier2Items(profile)) : Len(x) < config.min_length
    /\ \E x \in Range(Tier2Items(profile)) : Len(x) > config.max_length

\* C3: what a run with depth 2 (3) returns contains, as a set, what a run
\* with depth 1 (2) returns for the same seeds and length bounds.
C3_DepthMonotone ==
    (Generated /\ config.depth \in {2, 3}) =>
        Range(generate_candidates(profile,
                                  [config EXCEPT !.depth = config.depth - 1]))
            \subseteq Range(LastRun)

\* a depth-3 run returned strictly more than the depth-2 run, which
\* returned strictly more than the depth-1 run
C3_Witness ==
    /\ Generated
    /\ config.depth = 3
    /\ LET d1 == Range(generate_candidates(profile,
                                           [config EXCEPT !.depth = 1]))
           d2 == Range(generate_candidates(profile,
                                           [config EXCEPT !.depth = 2]))
       IN  d1 # {} /\ d1 # d2 /\ d2 # Range(LastRun)

\* C4: generation runs over the same seeds, configuration and corpora
\* return the same sequence, element for element.
C4_Deterministic ==
    \A i \in DOMAIN runs, j \in DOMAIN runs : runs[i] = runs[j]

\* two runs returned, and not an empty sequence
C4_Witness == Len(runs) >= 2 /\ runs[1] # <<>> /\ Len(runs[1]) > 6

\* depth outside 1..3, min_length below 1, or max_length below min_length
InvalidConfig(cfg) ==
    \/ cfg.depth < 1 \/ cfg.depth > 3
    \/ cfg.min_length < 1
    \/ cfg.max_length < cfg.min_length

\* C9: an invalid configuration is rejected before any tier runs, and no
\* sequence is returned for it.
C9_InvalidConfigRejected ==
    InvalidConfig(config) =>
        /\ pc \in {"clap", "cmd_generate", "generate", "tier1", "error"}
        /\ runs = <<>>

---------------------------------------------------------------------------
(* The match engine's claims, over CrackSpec.                              *)

\* the candidates whose digest is target t's, compared as the engine
\* compares them: lowercase hex
DigestOwners(t) ==
    {i \in DOMAIN candidates :
        compute_hash(algo, candidates[i]) = to_lowercase(hashes[t])}

\* a fast algorithm, N >= 1 distinct target digests, each the digest of
\* exactly one candidate of the list
EachTargetOnce ==
    /\ algo \in FastAlgorithms
    /\ hashes # <<>>
    /\ \A t, u \in DOMAIN hashes :
          t # u => to_lowercase(hashes[t]) # to_lowercase(hashes[u])
    /\ \A t \in DOMAIN hashes : Cardinality(DigestOwners(t)) = 1

\* the result for target t: its digest, the plaintext that has this digest
\* and the algorithm
ExpectedResult(t) ==
    [hash |-> to_lowercase(hashes[t]),
     plaintext |-> candidates[Only(DigestOwners(t))],
     algorithm |-> algo]

\* C5: for a fast algorithm and N distinct target digests, each the digest
\* of exactly one candidate, crack_hashes returns Ok with exactly N
\* results, and for each target exactly one result with this target's
\* digest, its plaintext and the algorithm - in every interleaving of the
\* workers and whatever the stop-flag loads return.
C5_ExactlyN ==
    (pc = "crack_returned" /\ EachTargetOnce) =>
        /\ ret.kind = "ok"
        /\ Len(ret.val) = Len(hashes)
        /\ \A t \in DOMAIN hashes :
              Cardinality({k \in DOMAIN ret.val :
                              ret.val[k] = ExpectedResult(t)}) = 1

\* a run with N = 2 has returned, with the stop flag set and the results in
\* another order than the targets
C5_Witness ==
    /\ pc = "crack_returned"
    /\ EachTargetOnce
    /\ Len(hashes) = 2
    /\ all_found
    /\ ret.kind = "ok"
    /\ Len(ret.val) = 2
    /\ ret.val[1] = ExpectedResult(2)

\* the target list is non-empty and no candidate matches a target
NoMatch ==
    /\ hashes # <<>>
    /\ \A i \in DOMAIN candidates, t \in DOMAIN hashes :
          IF algo = "Bcrypt"
          THEN ~BcryptVerifies(candidates[i], hashes[t])
          ELSE compute_hash(algo, candidates[i]) # to_lowercase(hashes[t])

\* C6: with a non-empty target list that no candidate matches, the stop
\* flag is never set, no candidate is skipped and no result is pushed, and
\* at the return every candidate has been scanned and the value is Ok of
\* the empty sequence - for the fast algorithms and for bcrypt.
C6_NoMatchScansAll ==
    NoMatch =>
        /\ ~all_found
        /\ results = <<>>
        /\ \A i \in DOMAIN task : task[i].pc # "skipped"
        /\ pc = "crack_returned" =>
              /\ ret.kind = "ok"
              /\ ret.val = <<>>
              /\ DOMAIN task = DOMAIN candidates
              /\ \A i \in DOMAIN task : task[i].pc = "done"

\* a bcrypt run over two candidates and a well-formed target has returned
\* without a match
C6_Witness ==
    /\ pc = "crack_returned"
    /\ NoMatch
    /\ algo = "Bcrypt"
    /\ Len(candidates) = 2
    /\ hashes[1][1] = "$"
    /\ ret.kind = "ok"
    /\ ret.val = <<>>

\* C7: with an empty target list crack_hashes goes from its entry to its
\* return alone: no worker is started, nothing is hashed or verified, no
\* result is produced, and the value returned is the error "No hashes
\* provided" - for every algorithm and candidate list.
C7_EmptyTargetsRejected ==
    hashes = <<>> =>
        /\ pc \in {"crack_hashes", "crack_returned"}
        /\ task = <<>>
        /\ target_hashes = <<>>
        /\ results = <<>>
        /\ found_count = 0
        /\ pc = "crack_returned" =>
              ret.kind = "err" /\ ret.val = "No hashes provided"

\* crack_hashes has returned the error for two candidates and no target
C7_Witness ==
    /\ pc = "crack_returned"
    /\ hashes = <<>>
    /\ Len(candidates) = 2
    /\ algo = "Bcrypt"
    /\ ret.kind = "err"

\* a fast algorithm, no candidate twice and no two candidates with one
\* digest
DedupCollisionFree ==
    /\ algo \in FastAlgorithms
    /\ \A i, j \in DOMAIN candidates :
          i # j => /\ candidates[i] # candidates[j]
                   /\ compute_hash(algo, candidates[i])
                        # compute_hash(algo, candidates[j])

\* C10: for a fast algorithm, duplicate-free candidates and no digest
\* collision among them, the result collection never holds more results
\* than there are targets, in every state of the scan and in the value
\* returned.
C10_ResultsAtMostTargets ==
    DedupCollisionFree =>
        /\ Len(results) <= Len(hashes)
        /\ (pc = "crack_returned" /\ ret.kind = "ok") =>
              Len(ret.val) <= Len(hashes)

\* two candidates have been scanned against two targets and as many
\* results as targets are returned
C10_Witness ==
    /\ pc = "crack_returned"
    /\ DedupCollisionFree
    /\ Len(candidates) = 2
    /\ Len(hashes) = 2
    /\ ret.kind = "ok"
    /\ Len(ret.val) = Len(hashes)

---------------------------------------------------------------------------
(* The crack-hash command's claim, over CmdSpec.                           *)

KnownSelectors ==
    {Chars("md5"), Chars("sha1"), Chars("sha256"), Chars("sha512"),
     Chars("bcrypt")}

---------------------------------------------------------------------------
(* The mutation engine's claims, over MutSpec.                             *)

\* C11: the list mutate_word returns for "test" contains "test", "Test",
\* "TEST", "tset" and "7es7", the form with every t replaced by 7 and the
\* other letters unchanged.
C11_TestVariants ==
    (pc = "mutated" /\ input_word = Chars("test")) =>
        /\ Chars("test") \in Range(variants)
        /\ Chars("Test") \in Range(variants)
        /\ Chars("TEST") \in Range(variants)
        /\ Chars("tset") \in Range(variants)
        /\ Chars("7es7") \in Range(variants)

\* the substitutes of a character in the table a->{@,4}, e->{3}, i->{1,!},
\* o->{0}, s->{$,5}, t->{7,+}, l->{1}
Substitutes(c) ==
    CASE c = "a" -> {"@", "4"}
      [] c = "e" -> {"3"}
      [] c = "i" -> {"1", "!"}
      [] c = "o" -> {"0"}
      [] c = "s" -> {"$", "5"}
      [] c = "t" -> {"7", "+"}
      [] c = "l" -> {"1"}
      [] OTHER -> {}

\* the (position, substitute) pairs of a lowercase word
LeetPairs(lower) ==
    {<<i, r>> \in (DOMAIN lower) \X {"@", "4", "3", "1", "!", "0", "$", "5",
                                      "7", "+"} : r \in Substitutes(lower[i])}

---------------------------------------------------------------------------
(* The match engine's behaviour claims, over CrackSpec.                    *)

\* C13: whenever the stop flag is set, every target of the scan has at
\* least one result in the result collection - for the fast algorithms and
\* bcrypt, any target list and any candidate list.
C13_StopOnlyWhenAllFound ==
    all_found =>
        \A t \in DOMAIN ScanTargets :
            \E k \in DOMAIN results : results[k].hash = ScanTargets[t]

\* candidate i matches target t of the scan
IsMatch(i, t) ==
    IF algo = "Bcrypt"
    THEN BcryptVerifies(candidates[i], hashes[t])
    ELSE compute_hash(algo, candidates[i]) = to_lowercase(hashes[t])

\* the targets the closure call for candidate i is through with: all of
\* them once it has ended, else those before the one it is at, and this
\* one too once its result is pushed
Compared(i) ==
    CASE task[i].pc = "done" -> DOMAIN ScanTargets
      [] task[i].pc \in {"loop", "lock", "push"} -> 1..(task[i].ti - 1)
      [] task[i].pc \in {"fetch_add", "store", "unlock"} -> 1..task[i].ti
      [] OTHER -> {}

\* C14: a closure call that read the stop flag as unset goes through every
\* target: it is never cut short, whatever the flag becomes, and for every
\* target it is through with and matches, its result is in the collection.
C14_StartedCompletes ==
    \A i \in DOMAIN task :
        /\ task[i].pc = "skipped" => task[i].ti = 0
        /\ \A t \in Compared(i) :
              IsMatch(i, t) =>
                  \E k \in DOMAIN results :
                      /\ results[k].hash = ScanTargets[t]
                      /\ results[k].plaintext = candidates[i]

\* a closure call has just pushed its first result while the stop flag,
\* stored by another call, was already set
C14_Witness ==
    \E i \in DOMAIN task :
        /\ task[i].pc = "fetch_add"
        /\ task[i].count = 0
        /\ all_found
        /\ results[Len(results)].plaintext = candidates[i]
        /\ Len(results) > Len(hashes)

\* the (target, plaintext) pairs of a result sequence
PairsOf(rs) == {<<rs[k].hash, rs[k].plaintext>> : k \in DOMAIN rs}

\* the pairs of a lowercased target and a candidate whose digest it is
MatchingPairs ==
    {<<to_lowercase(hashes[t]), candidates[i]>> :
        <<t, i>> \in {q \in (DOMAIN hashes) \X (DOMAIN candidates) :
            compute_hash(algo, candidates[q[2]]) = to_lowercase(hashes[q[1]])}}

\* C15: for a fast algorithm, duplicate-free candidates and no digest
\* collision among them, the set of (target, plaintext) pairs crack_hashes
\* returns is the set of all pairs of a lowercased target and a candidate
\* with this digest, in every interleaving of the workers; the order of
\* the results is not fixed.
C15_ResultSetDeterministic ==
    (pc = "crack_returned" /\ DedupCollisionFree /\ ret.kind = "ok") =>
        PairsOf(ret.val) = MatchingPairs

\* a run has returned both matching pairs with the second candidate's
\* result before the first candidate's
C15_Witness ==
    /\ pc = "crack_returned"
    /\ DedupCollisionFree
    /\ ret.kind = "ok"
    /\ Len(ret.val) = 2
    /\ Len(candidates) = 2
    /\ ret.val[1].plaintext = candidates[2]
    /\ ret.val[2].plaintext = candidates[1]
    /\ PairsOf(ret.val) = MatchingPairs

\* a result is a confirmed match of the scan
Confirmed(r) ==
    /\ r.plaintext \in Range(candidates)
    /\ r.algorithm = algo
    /\ IF algo = "Bcrypt"
       THEN /\ r.hash \in Range(hashes)
            /\ BcryptVerifies(r.plaintext, r.hash)
       ELSE /\ r.hash \in {to_lowercase(hashes[t]) : t \in DOMAIN hashes}
            /\ compute_hash(algo, r.plaintext) = r.hash

\* C17: every CrackResult of the result collection, and of the value
\* returned, is a confirmed match: its plaintext is a candidate, its hash a
\* target (lowercased for the fast algorithms), and the plaintext's digest
\* is this hash, or the plaintext verifies against it under bcrypt.
C17_ResultsConfirmed ==
    /\ \A k \in DOMAIN results : Confirmed(results[k])
    /\ (pc = "crack_returned" /\ ret.kind = "ok") =>
          \A k \in DOMAIN ret.val : Confirmed(ret.val[k])

\* two results are returned, the first for a target given in uppercase
\* hex and recorded in lowercase
C17_Witness ==
    /\ pc = "crack_returned"
    /\ ret.kind = "ok"
    /\ Len(ret.val) = 2
    /\ algo \in FastAlgorithms
    /\ ret.val[1].hash \notin Range(hashes)
    /\ ret.val[1].hash # ret.val[2].hash
    /\ \A k \in DOMAIN ret.val : Confirmed(ret.val[k])

---------------------------------------------------------------------------
(* The match engine's termination, over CrackFairSpec.                     *)

\* C16: under fair scheduling every crack_hashes run returns, each
\* candidate's closure call then having ended after its scan or having been
\* skipped on a set stop flag, and a call that waits for the lock of the
\* result collection gets it.
C16_EventuallyReturns ==
    /\ <>(/\ pc = "crack_returned"
          /\ ret.kind # "none"
          /\ \A i \in DOMAIN task : task[i].pc \in {"done", "skipped"}
          /\ lock = 0)
    /\ \A i \in 1..MaxCandidates :
          (i \in DOMAIN task /\ task[i].pc = "lock")
              ~> (i \in DOMAIN task /\ task[i].pc = "push")

\* a run has returned after one closure call was skipped and another had
\* to wait for the lock or pushed a result
C16_Witness ==
    /\ pc = "crack_returned"
    /\ ret.kind = "ok"
    /\ \E i \in DOMAIN task : task[i].pc = "skipped"
    /\ \E i \in DOMAIN task : task[i].pc = "done" /\ task[i].count > 0

---------------------------------------------------------------------------
(* The generator's behaviour claims, over Spec.                            *)

\* the depth from which tier k runs
Threshold(k) == IF k \in {1, 2} THEN 1 ELSE IF k = 6 THEN 3 ELSE 2

\* the tiers the run is past
TiersPast == {k \in 1..6 : \E n \in (k + 1)..7 : pc = PcOfTier[n]}
               \cup (IF Generated THEN 1..6 ELSE {})

\* the strings of a list that the length bounds let through
InBounds(items) ==
    {x \in Range(items) :
        Len(x) >= config.min_length /\ Len(x) <= config.max_length}

\* C18: a tier the run is past has run if the depth is at least 1 for
\* tiers 1 and 2, 2 for tiers 3 to 5 and 3 for tier 6 - every string of
\* its output that is within the bounds is then a candidate - and a tier
\* below its depth leaves the candidate sequence and the seen-set as they
\* were; with depth 1 every candidate is a line of the common-password
\* corpus or a mutate_word or double_word form of a seed word.
C18_TierGates ==
    /\ [](\A k \in TiersPast :
             config.depth >= Threshold(k) =>
                 InBounds(TierItems(k, profile)) \subseteq Range(candidates))
    /\ []((Generated /\ config.depth = 1) =>
             Range(LastRun) \subseteq
                 Range(common_passwords) \cup Range(Tier2Items(profile)))
    /\ [][\A k \in 1..6 :
             (pc = PcOfTier[k] /\ config.depth < Threshold(k)) =>
                 candidates' = candidates /\ seen' = seen]_vars

\* a depth-1 run returned strings of tiers 1 and 2 and none of the
\* strings that tier 3 alone produces within the bounds
C18_Witness ==
    /\ Generated
    /\ config.depth = 1
    /\ Range(LastRun) \cap Range(common_passwords) # {}
    /\ Range(LastRun) \cap Range(Tier2Items(profile)) # {}
    /\ InBounds(Tier3Items(profile)) \ Range(LastRun) # {}

\* the raw outputs of the tiers that run at the configured depth, one
\* after the other in the order 1..6
RawOutput ==
    Flatten([k \in 1..6 |->
        IF config.depth >= Threshold(k) THEN TierItems(k, profile)
        ELSE <<>>])

\* the position of the first occurrence of x in a sequence holding it
FirstIndex(s, x) == Least({i \in DOMAIN s : s[i] = x})

\* C19: the returned sequence holds exactly the strings of the raw output
\* that are within the length bounds, each once, in the order of their
\* first occurrences in the raw output: a string first produced by a later
\* tier never precedes one first produced by an earlier tier.
C19_FirstSeenOrder ==
    Generated =>
        LET raw == RawOutput
            run == LastRun
        IN  /\ Range(run) = InBounds(raw)
            /\ NoDuplicates(run)
            /\ LET first == [a \in DOMAIN run |-> FirstIndex(raw, run[a])]
               IN  \A a \in 1..(Len(run) - 1) : first[a] < first[a + 1]

\* a depth-3 run returned a sequence from a raw output that holds a
\* string twice and a string out of bounds
C19_Witness ==
    /\ Generated
    /\ config.depth = 3
    /\ Len(LastRun) >= 3
    /\ Cardinality(Range(RawOutput)) < Len(RawOutput)
    /\ InBounds(RawOutput) # Range(RawOutput)
    /\ \E k \in 2..6 :
          Range(TierItems(k, profile)) \cap Range(LastRun)
              \cap Range(Tier1Items) # {}

\* C20: at depth 3, for every seed word w, every variant m of
\* mutate_word(w) and every numeric suffix s, the string m followed by s
\* is a returned candidate when its length is within the bounds.
C20_VariantsSuffixed ==
    (Generated /\ config.depth = 3) =>
        \A i \in DOMAIN profile.words :
            \A m \in Range(mutate_word(profile.words[i])) :
                \A k \in DOMAIN numeric_suffixes :
                    LET ms == m \o numeric_suffixes[k]
                    IN  (Len(ms) >= config.min_length
                         /\ Len(ms) <= config.max_length)
                            => ms \in Range(LastRun)

---------------------------------------------------------------------------
(* The match engine's critical section, over CrackSpec.                    *)

\* s is an initial part of t
IsPrefix(s, t) == Len(s) <= Len(t) /\ s = SubSeq(t, 1, Len(s))

\* C21: a step that appends a result, increments found_count or sets the
\* stop flag is a step of the closure call that holds the lock of the
\* result collection, and keeps it; when no call holds the lock,
\* found_count is the number of results; the result collection only
\* grows at its end, found_count never decreases and the stop flag, once
\* set, stays set.
C21_UnderLock ==
    /\ [](lock = 0 => found_count = Len(results))
    /\ [][(results' # results \/ found_count' # found_count
             \/ all_found' # all_found) =>
            /\ lock # 0
            /\ lock' = lock
            /\ task'[lock] # task[lock]
            /\ \A j \in DOMAIN task : j # lock => task'[j] = task[j]]_vars
    /\ [][/\ IsPrefix(results, results')
          /\ found_count' >= found_count
          /\ all_found => all_found']_vars

\* a call holds the lock between its push and its fetch_add, found_count
\* one behind the results and the flag set by an earlier call, while
\* another call waits for the lock
C21_Witness ==
    /\ lock # 0
    /\ task[lock].pc = "fetch_add"
    /\ Len(results) = found_count + 1
    /\ all_found
    /\ \E j \in DOMAIN task : j # lock /\ task[j].pc = "lock"

---------------------------------------------------------------------------
(* Depth and the order of the candidates, over Spec.                       *)

\* what generate_candidates returns for the run's seeds and lengths at
\* depth d
AtDepth(d) == generate_candidates(profile, [config EXCEPT !.depth = d])

\* C22: for the same seeds, min_length and max_length, the sequence
\* returned at depth 1 is an initial part of the one returned at depth 2,
\* and that one an initial part of the one returned at depth 3: a deeper
\* run only appends.
C22_DepthPrefix ==
    (Generated /\ config.depth \in {2, 3}) =>
        IsPrefix(AtDepth(config.depth - 1), LastRun)

\* a depth-3 run whose sequence is strictly longer than the depth-2
\* sequence, itself strictly longer than a non-empty depth-1 sequence
C22_Witness ==
    /\ Generated
    /\ config.depth = 3
    /\ LET n1 == Len(AtDepth(1))
           n2 == Len(AtDepth(2))
       IN  0 < n1 /\ n1 < n2 /\ n2 < Len(LastRun)

====
